---- MODULE Spec2Model ----
(***************************************************************************)
(* Model of loom's execution orchestrator (src/rt/execution.rs): the       *)
(* Execution object, its DPOR scheduling step, thread spawning and the     *)
(* permutation-to-permutation reset.  The thread set, the object store and *)
(* the branch ledger (Path) live in other files of the crate; they are     *)
(* modelled here from their documented contracts.                          *)
(*                                                                         *)
(* Thread identifiers are 1-based here (Rust: 0-based); NoThread stands    *)
(* for Option::None.  Branch positions (Path::pos) are 0-based as in Rust. *)
(***************************************************************************)
EXTENDS Naturals, Integers, Sequences, FiniteSets, TLC

\* ------------------------------------------------------------------ bounds
\* max_threads handed to Execution::new
MaxThreads == 2
\* max_branches handed to Execution::new: schedule() calls per permutation
MaxBranches == 3
\* number of identities the model lets the process issue
MaxIds == 3
\* identities drawn for other executions while the program under test runs
MaxElsewhere == 2

NoThread == 0
NoOp == 0
\* the tracked objects a thread can have a pending operation on
Objects == {1, 2}

VARIABLES
    NEXT_ID,          \* static NEXT_ID: AtomicUsize
    issued,           \* history: identities handed out by Id::new, in order
    alive,            \* FALSE once step() has returned None
    id,               \* Execution::id
    path,             \* Execution::path (branch ledger)
    threads,          \* Execution::threads: the threads of the set
    active,           \* Execution::threads: the active thread, or NoThread
    threads_eid,      \* Execution::threads: identity the set is tagged with
    objects,          \* Execution::objects: object -> last dependent accesses
    objects_eid,      \* Execution::objects: identity the store is tagged with
    raw_allocations,  \* Execution::raw_allocations (keys)
    max_threads,      \* Execution::max_threads
    max_history,      \* Execution::max_history
    log,              \* Execution::log
    ret,              \* outcome of the last schedule() call
    spawn_info,       \* history: per thread, the clocks around its spawn
    skipped,          \* history: per thread, rounds spent skipped in Yield
    pc,               \* program under test: per thread, accesses started
    trace,            \* history: threads in the order their accesses were recorded
    explored          \* history: traces of the completed permutations

exec_vars == <<NEXT_ID, issued, alive, id, path, threads, active, threads_eid,
               objects, objects_eid, raw_allocations, max_threads, max_history,
               log, ret>>
hist_vars == <<spawn_info, skipped>>
prog_vars == <<pc, trace, explored>>
vars == <<exec_vars, hist_vars, prog_vars>>

\* ------------------------------------------------------- vector clocks
VersionVecNew(n) == [i \in 1..n |-> 0]

Join(a, b) == [i \in DOMAIN a |-> IF a[i] >= b[i] THEN a[i] ELSE b[i]]

Inc(v, i) == [v EXCEPT ![i] = @ + 1]

\* VersionVec <= VersionVec, entrywise
VVLe(a, b) == \A i \in DOMAIN a : a[i] <= b[i]

\* Access::happens_before(&self, version)
happens_before(access, vv) == VVLe(access.version, vv)

\* Access::new(path_id, version)
AccessNew(path_id, version) == [path_id |-> path_id, version |-> version]

\* ------------------------------------------------------------ thread set
ThreadNew(n) ==
    [state |-> "Runnable", critical |-> FALSE, operation |-> NoOp,
     causality |-> VersionVecNew(n), dpor_vv |-> VersionVecNew(n),
     yield_count |-> 0]

is_runnable(th) == th.state = "Runnable"
is_yield(th) == th.state = "Yield"
is_terminated(th) == th.state = "Terminated"

ThreadIds(ths) == 1..Len(ths)

\* thread::Set::new / thread::Set::clear: one initial runnable thread
SetNew(n) == <<ThreadNew(n)>>

\* ---------------------------------------------------------- object store
StoreNew == [o \in Objects |-> {}]

\* object::Store::last_dependent_accesses(operation)
last_dependent_accesses(objs, operation) == objs[operation]

\* object::Store::set_last_access(operation, access)
set_last_access(objs, operation, access) == [objs EXCEPT ![operation] = {access}]

\* ------------------------------------------------------- branch ledger
\* Path::new: nothing decided yet
PathNew == [pos |-> 0, branches |-> <<>>]

\* Path::pos
PathPos(p) == p.pos

FirstWith(classes, c) ==
    IF \E i \in 1..Len(classes) : classes[i] = c
    THEN CHOOSE i \in 1..Len(classes) :
            /\ classes[i] = c
            /\ \A j \in 1..(i - 1) : classes[j] # c
    ELSE NoThread

\* Path::branch_thread, the ledger afterwards: a position not yet decided
\* records the classification; a position decided by an earlier permutation
\* is replayed
PathBranch(p, seed) ==
    IF p.pos = Len(p.branches)
    THEN [pos |-> p.pos + 1,
          branches |-> Append(p.branches, [threads |-> seed, seed |-> seed])]
    ELSE [p EXCEPT !.pos = @ + 1]

\* Path::branch_thread, the thread it returns
PathSelected(p, seed) ==
    FirstWith(PathBranch(p, seed).branches[p.pos + 1].threads, "Active")

\* Path::backtrack for a set of (position, thread) obligations: a thread that
\* was runnable but not chosen at that position becomes pending; if it was
\* disabled there, every such thread does
PathBacktrack(p, pairs) ==
    [p EXCEPT !.branches =
        [k \in 1..Len(p.branches) |->
            [p.branches[k] EXCEPT !.threads =
                [j \in 1..Len(p.branches[k].threads) |->
                    IF /\ p.branches[k].threads[j] = "Skip"
                       /\ \E pr \in pairs :
                            /\ pr[1] = k - 1
                            /\ pr[2] <= Len(p.branches[k].threads)
                            /\ \/ pr[2] = j
                               \/ p.branches[k].threads[pr[2]] = "Disabled"
                    THEN "Pending"
                    ELSE p.branches[k].threads[j]]]]]

HasPending(b) == \E j \in 1..Len(b.threads) : b.threads[j] = "Pending"

\* Path::step, the branches kept: the longest prefix ending in a branch that
\* still has a pending thread
RECURSIVE PathTrim(_)
PathTrim(bs) ==
    IF bs = <<>> THEN <<>>
    ELSE IF HasPending(bs[Len(bs)]) THEN bs
    ELSE PathTrim(SubSeq(bs, 1, Len(bs) - 1))

\* Path::step, whether a permutation remains
PathStepMore(p) == PathTrim(p.branches) # <<>>

\* Path::step, the ledger afterwards: at the last branch with a pending
\* thread the active thread becomes visited and the first pending one active
PathStep(p) ==
    LET bs == PathTrim(p.branches)
        n == Len(bs)
        first == FirstWith(bs[n].threads, "Pending")
        last == [j \in 1..Len(bs[n].threads) |->
                    IF bs[n].threads[j] = "Active" THEN "Visited"
                    ELSE IF j = first THEN "Active"
                    ELSE bs[n].threads[j]]
    IN IF bs = <<>> THEN [pos |-> 0, branches |-> <<>>]
       ELSE [pos |-> 0, branches |-> [bs EXCEPT ![n].threads = last]]

\* ------------------------------------------------------------ identities
\* Id::new: the value fetch_add returns
IdNew(counter) == counter

\* a variant of Id::new that reads the counter without advancing it
IdNewCounter_Stuck(counter) == counter

\* Id::new: the counter fetch_add leaves behind (usize; the model stops
\* issuing at MaxIds, far below the wrap)
IdNewCounter(counter) == counter + 1

\* --------------------------------------------------- Execution::new_thread
\* a variant of new_thread() that forgets to join the parent's DPOR clock
NewThreadSet_NoDporJoin(ths, act, n) ==
    LET thread_id == Len(ths) + 1
        new0 == ThreadNew(n)
        new1 == [new0 EXCEPT !.causality = Join(@, ths[act].causality)]
        new2 == [new1 EXCEPT !.causality = Inc(@, thread_id)]
    IN Append([ths EXCEPT ![act].causality = Inc(@, act)], new2)

\* a variant of new_thread() that bumps the child's causality entry only
NewThreadSet_NoParentBump(ths, act, n) ==
    LET thread_id == Len(ths) + 1
        new0 == ThreadNew(n)
        new1 == [new0 EXCEPT !.causality = Join(@, ths[act].causality),
                             !.dpor_vv = Join(@, ths[act].dpor_vv)]
        new2 == [new1 EXCEPT !.causality = Inc(@, thread_id)]
    IN Append(ths, new2)

\* the thread set after new_thread(): the child joins the parent's clocks,
\* then child and parent bump their own causality entry
NewThreadSet(ths, act, n) ==
    LET thread_id == Len(ths) + 1
        new0 == ThreadNew(n)
        new1 == [new0 EXCEPT !.causality = Join(@, ths[act].causality),
                             !.dpor_vv = Join(@, ths[act].dpor_vv)]
        new2 == [new1 EXCEPT !.causality = Inc(@, thread_id)]
    IN Append([ths EXCEPT ![act].causality = Inc(@, act)], new2)

\* ----------------------------------------------------- Execution::schedule
\* a variant of step 1 with the happens-before test inverted
RaceBacktracks_Inverted(ths, objs) ==
    UNION {{<<access.path_id, th_id>> :
                access \in {a \in last_dependent_accesses(objs, ths[th_id].operation) :
                               happens_before(a, ths[th_id].dpor_vv)}} :
           th_id \in {t \in ThreadIds(ths) : ths[t].operation # NoOp}}

\* a variant of step 1 that registers nothing with the ledger
RaceBacktracks_None(ths, objs) == {}

\* step 1: the (branch position, thread) pairs handed to Path::backtrack
RaceBacktracks(ths, objs) ==
    UNION {{<<access.path_id, th_id>> :
                access \in {a \in last_dependent_accesses(objs, ths[th_id].operation) :
                               ~happens_before(a, ths[th_id].dpor_vv)}} :
           th_id \in {t \in ThreadIds(ths) : ths[t].operation # NoOp}}

\* a variant of step 2's loop that replaces the candidate on an equal yield
\* count too, so the highest identifier wins a tie
RECURSIVE InitialLoop_LastTie(_, _, _)
InitialLoop_LastTie(ths, i, initial) ==
    IF i > Len(ths) THEN initial
    ELSE IF ~is_runnable(ths[i]) THEN InitialLoop_LastTie(ths, i + 1, initial)
    ELSE IF initial = NoThread THEN InitialLoop_LastTie(ths, i + 1, i)
    ELSE IF ths[i].yield_count <= ths[initial].yield_count
    THEN InitialLoop_LastTie(ths, i + 1, i)
    ELSE InitialLoop_LastTie(ths, i + 1, initial)

\* step 2's loop from thread i on, with the candidate found so far: a
\* runnable thread replaces the candidate only on a strictly smaller yield
\* count
RECURSIVE InitialLoop(_, _, _)
InitialLoop(ths, i, initial) ==
    IF i > Len(ths) THEN initial
    ELSE IF ~is_runnable(ths[i]) THEN InitialLoop(ths, i + 1, initial)
    ELSE IF initial = NoThread THEN InitialLoop(ths, i + 1, i)
    ELSE IF ths[i].yield_count < ths[initial].yield_count
    THEN InitialLoop(ths, i + 1, i)
    ELSE InitialLoop(ths, i + 1, initial)

\* step 2: the active thread if runnable, else what the loop over all
\* threads finds
InitialCandidate(ths, act) ==
    IF is_runnable(ths[act]) THEN act
    ELSE InitialLoop(ths, 1, NoThread)

\* step 3, the closure's own fallback: with no candidate the first runnable
\* thread met becomes the candidate
SeedInitial(ths, initial) ==
    IF initial # NoThread THEN initial
    ELSE IF \E i \in ThreadIds(ths) : is_runnable(ths[i])
    THEN CHOOSE i \in ThreadIds(ths) :
            is_runnable(ths[i]) /\ \A j \in 1..(i - 1) : ~is_runnable(ths[j])
    ELSE NoThread

\* a variant of step 3 that tests runnability before the yield, so that a
\* yielded thread is handed over as Disabled
Classify_DisabledFirst(ths, initial) ==
    [i \in ThreadIds(ths) |->
        IF SeedInitial(ths, initial) = i THEN "Active"
        ELSE IF ~is_runnable(ths[i]) THEN "Disabled"
        ELSE IF is_yield(ths[i]) THEN "Yield"
        ELSE "Skip"]

\* step 3: the class of every thread handed to Path::branch_thread
Classify(ths, initial) ==
    [i \in ThreadIds(ths) |->
        IF SeedInitial(ths, initial) = i THEN "Active"
        ELSE IF is_yield(ths[i]) THEN "Yield"
        ELSE IF ~is_runnable(ths[i]) THEN "Disabled"
        ELSE "Skip"]

\* a variant of step 4 that is content with one terminated thread
DeadlockAssert_Any(ths) == \E i \in ThreadIds(ths) : is_terminated(ths[i])

\* step 4: the assertion guarding the no-active-thread return
DeadlockAssert(ths) == \A i \in ThreadIds(ths) : is_terminated(ths[i])

RECURSIVE JoinInto(_, _)
JoinInto(vv, accesses) ==
    IF accesses = {} THEN vv
    ELSE LET a == CHOOSE x \in accesses : TRUE
         IN JoinInto(Join(vv, a.version), accesses \ {a})

\* a variant of step 5's loop that joins into an empty clock instead of the
\* thread's own
JoinAll_FromEmpty(vv, accesses) == JoinInto([i \in DOMAIN vv |-> 0], accesses)

\* step 5's loop: the clock joined with every last dependent access
JoinAll(vv, accesses) == JoinInto(vv, accesses)

\* a variant of step 5 that bumps the own entry without joining the accesses
CausalClock_NoJoin(ths, next, objs) == Inc(ths[next].dpor_vv, next)

\* a variant of step 5 that forgets the increment of the own entry
CausalClock_NoInc(ths, next, objs) ==
    JoinAll(ths[next].dpor_vv, last_dependent_accesses(objs, ths[next].operation))

\* step 5: the selected thread's DPOR clock after the causal update
CausalClock(ths, next, objs) ==
    Inc(JoinAll(ths[next].dpor_vv,
                last_dependent_accesses(objs, ths[next].operation)), next)

\* a variant of step 5 that takes the pending operation off the thread once
\* it is recorded
CausalUpdate_ClearOp(ths, next, objs) ==
    IF ths[next].operation # NoOp
    THEN [ths EXCEPT ![next].dpor_vv = CausalClock(ths, next, objs),
                     ![next].operation = NoOp]
    ELSE ths

\* step 5: the thread set after the causal update
CausalUpdate(ths, next, objs) ==
    IF ths[next].operation # NoOp
    THEN [ths EXCEPT ![next].dpor_vv = CausalClock(ths, next, objs)]
    ELSE ths

\* step 5: the object store after the causal update
CausalRecord(ths, next, objs, path_id) ==
    IF ths[next].operation # NoOp
    THEN set_last_access(objs, ths[next].operation,
                         AccessNew(path_id, CausalClock(ths, next, objs)))
    ELSE objs

\* a variant of step 6 that wakes nobody
WakeYielded_Never(ths, next) == ths

\* a variant of step 6 that wakes every thread that is not runnable
WakeYielded_NotRunnable(ths, next) ==
    [i \in ThreadIds(ths) |->
        IF ~is_runnable(ths[i]) /\ i # next
        THEN [ths[i] EXCEPT !.state = "Runnable"]
        ELSE ths[i]]

\* a variant of step 6 that wakes the selected thread too
WakeYielded_All(ths, next) ==
    [i \in ThreadIds(ths) |->
        IF is_yield(ths[i]) THEN [ths[i] EXCEPT !.state = "Runnable"] ELSE ths[i]]

\* step 6: yielded threads other than the selected one become runnable
WakeYielded(ths, next) ==
    [i \in ThreadIds(ths) |->
        IF is_yield(ths[i]) /\ i # next
        THEN [ths[i] EXCEPT !.state = "Runnable"]
        ELSE ths[i]]

\* a variant of step 7 with the comparison inverted
ScheduleReturn_Inverted(curr_thread, next) == curr_thread = next

\* step 7: the value returned when a thread was selected
ScheduleReturn(curr_thread, next) == curr_thread # next

\* the ledger after race detection, the classification and the selection of
\* one schedule() call
SchedPath(p, ths, objs) == PathBacktrack(p, RaceBacktracks(ths, objs))
SchedSeed(ths, act) == Classify(ths, InitialCandidate(ths, act))
SchedNext(p, ths, act, objs) ==
    PathSelected(SchedPath(p, ths, objs), SchedSeed(ths, act))

Bool(b) == IF b THEN "true" ELSE "false"

\* Execution::schedule, the whole call
schedule ==
    /\ alive /\ ret # "panic" /\ active # NoThread
    /\ LET curr_thread == active
           p1 == SchedPath(path, threads, objects)
           path_id == PathPos(p1)
           seed == SchedSeed(threads, active)
           next == SchedNext(path, threads, active, objects)
       IN /\ path' = PathBranch(p1, seed)
          /\ active' = next
          /\ IF next = NoThread
             THEN /\ ret' = IF DeadlockAssert(threads) THEN "true" ELSE "panic"
                  /\ UNCHANGED <<threads, objects>>
             ELSE /\ threads' = WakeYielded(CausalUpdate(threads, next, objects), next)
                  /\ objects' = CausalRecord(threads, next, objects, path_id)
                  /\ ret' = Bool(ScheduleReturn(curr_thread, next))
    /\ UNCHANGED <<NEXT_ID, issued, alive, id, threads_eid, objects_eid,
                   raw_allocations, max_threads, max_history, log>>

\* Execution::new_thread
new_thread ==
    /\ alive /\ ret # "panic" /\ active # NoThread
    /\ Len(threads) < max_threads
    /\ threads' = NewThreadSet(threads, active, max_threads)
    /\ UNCHANGED <<NEXT_ID, issued, alive, id, path, active, threads_eid, objects,
                   objects_eid, raw_allocations, max_threads, max_history, log, ret>>

\* Execution::set_critical
set_critical ==
    /\ alive /\ ret # "panic" /\ active # NoThread
    /\ threads' = [threads EXCEPT ![active].critical = TRUE]
    /\ UNCHANGED <<NEXT_ID, issued, alive, id, path, active, threads_eid, objects,
                   objects_eid, raw_allocations, max_threads, max_history, log, ret>>

\* Execution::unset_critical
unset_critical ==
    /\ alive /\ ret # "panic" /\ active # NoThread
    /\ threads' = [threads EXCEPT ![active].critical = FALSE]
    /\ UNCHANGED <<NEXT_ID, issued, alive, id, path, active, threads_eid, objects,
                   objects_eid, raw_allocations, max_threads, max_history, log, ret>>

\* --------------------------------------------------------- Execution::step
\* the fields of the execution step() returns, given the fresh identity
StepId(new_id, old_id) == new_id
StepThreads(ths, n) == SetNew(n)
StepObjects(objs) == StoreNew
StepAllocations_Keep(allocs) == allocs
StepAllocations(allocs) == {}
StepLimits(limits) == limits

\* Execution::step: the identity is drawn first, the store and the allocation
\* table are cleared, and only then the ledger is asked whether a
\* permutation remains
step ==
    /\ alive /\ ret # "panic"
    /\ NEXT_ID' = IdNewCounter(NEXT_ID)
    /\ issued' = Append(issued, IdNew(NEXT_ID))
    /\ objects' = StepObjects(objects)
    /\ raw_allocations' = StepAllocations(raw_allocations)
    /\ max_threads' = StepLimits(<<max_threads, max_history, log>>)[1]
    /\ max_history' = StepLimits(<<max_threads, max_history, log>>)[2]
    /\ log' = StepLimits(<<max_threads, max_history, log>>)[3]
    /\ UNCHANGED objects_eid
    /\ IF ~PathStepMore(path)
       THEN /\ alive' = FALSE
            /\ path' = PathStep(path)
            /\ UNCHANGED <<id, threads, active, threads_eid, ret>>
       ELSE /\ alive' = TRUE
            /\ path' = PathStep(path)
            /\ id' = StepId(IdNew(NEXT_ID), id)
            /\ threads' = StepThreads(threads, max_threads)
            /\ active' = 1
            /\ threads_eid' = StepId(IdNew(NEXT_ID), id)
            /\ ret' = "none"

\* ------------------------------------------------- the callers' own steps
\* the active thread is running the program under test
Running == alive /\ ret # "panic" /\ active # NoThread /\ is_runnable(threads[active])

exec_rest == <<NEXT_ID, issued, alive, id, path, active, threads_eid, objects,
               objects_eid, raw_allocations, max_threads, max_history, log, ret>>

\* the active thread is about to touch object o: Thread::operation = Some(o)
SetOperationOf(o) ==
    /\ Running
    /\ threads' = [threads EXCEPT ![active].operation = o]
    /\ UNCHANGED exec_rest

\* Runnable -> Yield, counting the yield
SetYieldOf ==
    /\ Running
    /\ threads' = [threads EXCEPT ![active].state = "Yield",
                                  ![active].yield_count = @ + 1]
    /\ UNCHANGED exec_rest

\* Runnable -> Blocked
SetBlockedOf ==
    /\ Running
    /\ threads' = [threads EXCEPT ![active].state = "Blocked"]
    /\ UNCHANGED exec_rest

\* Runnable -> Terminated: the thread body is done
SetTerminatedOf ==
    /\ Running
    /\ threads' = [threads EXCEPT ![active].state = "Terminated",
                                  ![active].operation = NoOp]
    /\ UNCHANGED exec_rest

\* Blocked -> Runnable, by the primitive the thread was blocked on
UnblockOf(t) ==
    /\ Running
    /\ t \in ThreadIds(threads)
    /\ threads[t].state = "Blocked"
    /\ threads' = [threads EXCEPT ![t].state = "Runnable"]
    /\ UNCHANGED exec_rest

\* a raw allocation is tracked in Execution::raw_allocations
TrackAllocationOf(a) ==
    /\ Running
    /\ a \notin raw_allocations
    /\ raw_allocations' = raw_allocations \cup {a}
    /\ UNCHANGED <<NEXT_ID, issued, alive, id, path, threads, active, threads_eid,
                   objects, objects_eid, max_threads, max_history, log, ret>>

\* the caller turns logging on before the first run
SetLogOf ==
    /\ Running
    /\ ~log /\ path = PathNew /\ threads = SetNew(max_threads)
    /\ log' = TRUE
    /\ UNCHANGED <<NEXT_ID, issued, alive, id, path, threads, active, threads_eid,
                   objects, objects_eid, raw_allocations, max_threads,
                   max_history, ret>>

\* Id::new called for another execution, on another OS thread
IdNewElsewhere ==
    /\ NEXT_ID' = IdNewCounter(NEXT_ID)
    /\ issued' = Append(issued, IdNew(NEXT_ID))
    /\ UNCHANGED <<alive, id, path, threads, active, threads_eid, objects,
                   objects_eid, raw_allocations, max_threads, max_history, log, ret>>

\* the program under test is deterministic: a position decided by an earlier
\* permutation is reached again with the classification it had then
ReplayConsistent ==
    LET p1 == SchedPath(path, threads, objects)
    IN p1.pos < Len(p1.branches) =>
           p1.branches[p1.pos + 1].seed = SchedSeed(threads, active)

\* ------------------------------------------------------ history variables
NoSpawn(n) == [parent |-> NoThread, pclock |-> VersionVecNew(n),
               cclock |-> VersionVecNew(n), cfirst |-> {}, pfirst |-> {}]

\* new_thread with the clocks around the spawn remembered
NewThreadH ==
    /\ Running
    /\ new_thread
    /\ spawn_info' = Append(spawn_info,
          [parent |-> active,
           pclock |-> threads[active].dpor_vv,
           cclock |-> threads'[Len(threads')].dpor_vv,
           cfirst |-> {}, pfirst |-> {}])
    /\ skipped' = Append(skipped, 0)

\* the clock of the access this schedule() call recorded, if any
RecordedNow ==
    IF active' # NoThread /\ threads[active'].operation # NoOp
    THEN {a.version : a \in objects'[threads[active'].operation]}
    ELSE {}

\* schedule with the first accesses after each spawn and the skipped rounds
\* remembered
ScheduleH ==
    /\ ReplayConsistent
    /\ schedule
    /\ spawn_info' =
          [c \in ThreadIds(threads) |->
              [spawn_info[c] EXCEPT
                  !.cfirst = IF c = active' /\ @ = {} THEN RecordedNow ELSE @,
                  !.pfirst = IF spawn_info[c].parent = active' /\ @ = {}
                             THEN RecordedNow ELSE @]]
    /\ skipped' =
          [t \in ThreadIds(threads) |->
              IF is_yield(threads[t]) /\ t # active' /\ ret' # "panic"
              THEN skipped[t] + 1 ELSE skipped[t]]

\* step with the history of the finished permutation dropped
StepH ==
    /\ active = NoThread
    /\ step
    /\ spawn_info' = IF alive' THEN <<NoSpawn(max_threads)>> ELSE spawn_info
    /\ skipped' = IF alive' THEN <<0>> ELSE skipped

\* ------------------------------------------------------------------- Spec
\* Execution::new(max_threads, max_branches, preemption_bound)
ExecNew(n) ==
    /\ NEXT_ID = IdNewCounter(0)
    /\ issued = <<IdNew(0)>>
    /\ alive = TRUE
    /\ id = IdNew(0)
    /\ path = PathNew
    /\ threads = SetNew(n)
    /\ active = 1
    /\ threads_eid = IdNew(0)
    /\ objects = StoreNew
    /\ objects_eid = IdNew(0)
    /\ raw_allocations = {}
    /\ max_threads = n
    /\ max_history = 7
    /\ log = FALSE
    /\ ret = "none"
    /\ spawn_info = <<NoSpawn(n)>>
    /\ skipped = <<0>>

ExecInit == ExecNew(MaxThreads)

Init ==
    /\ ExecInit
    /\ pc = <<>>
    /\ trace = <<>>
    /\ explored = <<>>

NewThread == NewThreadH /\ UNCHANGED prog_vars
Schedule == path.pos < MaxBranches /\ ScheduleH /\ UNCHANGED prog_vars
Step == NEXT_ID < MaxIds /\ StepH /\ UNCHANGED prog_vars
SetOperation == \E o \in Objects : SetOperationOf(o) /\ UNCHANGED <<hist_vars, prog_vars>>
SetYield == SetYieldOf /\ UNCHANGED <<hist_vars, prog_vars>>
SetBlocked == SetBlockedOf /\ UNCHANGED <<hist_vars, prog_vars>>
SetTerminated == SetTerminatedOf /\ UNCHANGED <<hist_vars, prog_vars>>
Unblock == \E t \in 1..MaxThreads : UnblockOf(t) /\ UNCHANGED <<hist_vars, prog_vars>>

Next ==
    \/ NewThread
    \/ Schedule
    \/ Step
    \/ SetOperation
    \/ SetYield
    \/ SetBlocked
    \/ SetTerminated
    \/ Unblock

Spec == Init /\ [][Next]_vars

\* --------------------------------------------------------------- SpecProg
\* The program under test of the exhaustiveness property: the main thread
\* spawns one thread, then each of the two threads writes a shared counter
\* (object 1) twice, branching into schedule() before every write, and
\* terminates.  A driver calls step() after every finished run.  Around it
\* the threads mark critical sections, the allocator tracks an allocation,
\* the caller turns logging on, and other executions draw identities.
ProgStart == <<[at |-> "spawn", n |-> 0]>>

ProgInit ==
    /\ ExecInit
    /\ pc = ProgStart
    /\ trace = <<>>
    /\ explored = <<>>

\* the main thread spawns the second thread
P_Spawn ==
    /\ Running /\ pc[active].at = "spawn"
    /\ NewThreadH
    /\ pc' = <<[at |-> "ready", n |-> 0], [at |-> "start", n |-> 0]>>
    /\ UNCHANGED <<trace, explored>>

\* the active thread is about to write the counter
P_Access ==
    /\ Running /\ pc[active].at = "ready" /\ pc[active].n < 2
    /\ SetOperationOf(1)
    /\ pc' = [pc EXCEPT ![active].at = "branch"]
    /\ UNCHANGED <<hist_vars, trace, explored>>

\* the active thread has written the counter twice: its body is done
P_Exit ==
    /\ Running /\ pc[active].at = "ready" /\ pc[active].n = 2
    /\ SetTerminatedOf
    /\ pc' = [pc EXCEPT ![active].at = "exit"]
    /\ UNCHANGED <<hist_vars, trace, explored>>

\* the active thread calls schedule(); the thread selected leaves the
\* schedule() call it was parked in (or starts its body)
P_Schedule ==
    /\ active # NoThread /\ pc[active].at \in {"branch", "exit"}
    /\ ScheduleH
    /\ LET parked == [pc EXCEPT ![active].at =
                          IF @ = "branch" THEN "parked" ELSE "done"]
       IN pc' = [t \in DOMAIN pc |->
                    IF t = active' /\ parked[t].at = "parked"
                    THEN [parked[t] EXCEPT !.at = "write"]
                    ELSE IF t = active' /\ parked[t].at = "start"
                    THEN [parked[t] EXCEPT !.at = "ready"]
                    ELSE parked[t]]
    /\ trace' = IF RecordedNow # {} THEN Append(trace, active') ELSE trace
    /\ UNCHANGED explored

\* the active thread performs the write it branched for
P_Write ==
    /\ Running /\ pc[active].at = "write"
    /\ pc' = [pc EXCEPT ![active] = [at |-> "ready", n |-> @.n + 1]]
    /\ UNCHANGED <<exec_vars, hist_vars, trace, explored>>

\* the driver advances to the next permutation once the run is over
P_Step ==
    /\ active = NoThread /\ ret = "true"
    /\ StepH
    /\ explored' = Append(explored, trace)
    /\ trace' = <<>>
    /\ pc' = IF alive' THEN ProgStart ELSE pc

P_SetCritical ==
    /\ Running /\ ~threads[active].critical
    /\ set_critical
    /\ UNCHANGED <<hist_vars, prog_vars>>

P_UnsetCritical ==
    /\ Running /\ threads[active].critical
    /\ unset_critical
    /\ UNCHANGED <<hist_vars, prog_vars>>

P_TrackAllocation ==
    /\ TrackAllocationOf(1)
    /\ UNCHANGED <<hist_vars, prog_vars>>

P_SetLog == SetLogOf /\ UNCHANGED <<hist_vars, prog_vars>>

P_IdNewElsewhere ==
    /\ Len(issued) - 1 - Len(explored) < MaxElsewhere
    /\ IdNewElsewhere
    /\ UNCHANGED <<hist_vars, prog_vars>>

ProgNext ==
    \/ P_Spawn
    \/ P_Access
    \/ P_Exit
    \/ P_Schedule
    \/ P_Write
    \/ P_Step
    \/ P_SetCritical
    \/ P_UnsetCritical
    \/ P_TrackAllocation
    \/ P_SetLog
    \/ P_IdNewElsewhere

SpecProg == ProgInit /\ [][ProgNext]_vars

\* -------------------------------------------------------------- SpecYield
\* One permutation of a program of one thread more than MaxThreads, none of
\* which touches a tracked object: the threads spawn, yield, block on and are
\* released from primitives, terminate, and call schedule().
YieldInit ==
    /\ ExecNew(MaxThreads + 1)
    /\ pc = <<>>
    /\ trace = <<>>
    /\ explored = <<>>

Y_Spawn == NewThreadH /\ UNCHANGED prog_vars

Y_Yield ==
    /\ Running /\ threads[active].yield_count < MaxThreads
    /\ SetYieldOf
    /\ UNCHANGED <<hist_vars, prog_vars>>

Y_Block == SetBlockedOf /\ UNCHANGED <<hist_vars, prog_vars>>

Y_Exit == SetTerminatedOf /\ UNCHANGED <<hist_vars, prog_vars>>

Y_Unblock ==
    /\ \E t \in 1..(MaxThreads + 1) : UnblockOf(t)
    /\ UNCHANGED <<hist_vars, prog_vars>>

\* the main thread marks a critical section while another thread is blocked
\* or has terminated
Y_SetCritical ==
    /\ Running /\ active = 1 /\ ~threads[active].critical
    /\ \E t \in ThreadIds(threads) : threads[t].state \in {"Blocked", "Terminated"}
    /\ set_critical
    /\ UNCHANGED <<hist_vars, prog_vars>>

Y_UnsetCritical ==
    /\ Running /\ threads[active].critical
    /\ unset_critical
    /\ UNCHANGED <<hist_vars, prog_vars>>

Y_Schedule ==
    /\ path.pos < MaxBranches
    /\ ScheduleH
    /\ UNCHANGED prog_vars

YieldNext ==
    \/ Y_Spawn
    \/ Y_Yield
    \/ Y_Block
    \/ Y_Exit
    \/ Y_Unblock
    \/ Y_SetCritical
    \/ Y_UnsetCritical
    \/ Y_Schedule

SpecYield == YieldInit /\ [][YieldNext]_vars

\* ----------------------------------------------------------------- claims
Range(seq) == {seq[i] : i \in 1..Len(seq)}

\* the causally-distinct interleavings of the program of SpecProg: all four
\* writes touch one object, so every order of them that keeps each thread's
\* own two writes in program order is causally distinct
Interleavings ==
    {s \in [1..4 -> {1, 2}] : Cardinality({i \in 1..4 : s[i] = 1}) = 2}


C2_DeadlockIff ==
    /\ (ret = "panic") <=>
          (alive /\ active = NoThread
             /\ \E t \in ThreadIds(threads) : ~is_terminated(threads[t]))
    /\ (alive /\ active = NoThread
          /\ \A t \in ThreadIds(threads) : is_terminated(threads[t])) => ret = "true"

\* C2 witness: two threads, both blocked, and schedule() has aborted
C2_Witness ==
    /\ ret = "panic"
    /\ Len(threads) = 2
    /\ \A t \in ThreadIds(threads) : threads[t].state = "Blocked"

\* C3: for every spawned thread C of parent P, the access recorded for C's
\* first write after the spawn carries a clock entrywise >= P's DPOR clock at
\* spawn time, and the access recorded for P's first write after the spawn
\* does not happen-before the DPOR clock C received at the spawn.
C3_SpawnEdge ==
    \A c \in ThreadIds(threads) :
        spawn_info[c].parent # NoThread =>
            /\ \A v \in spawn_info[c].cfirst : VVLe(spawn_info[c].pclock, v)
            /\ \A v \in spawn_info[c].pfirst : ~VVLe(v, spawn_info[c].cclock)

\* C3 witness: a parent that had written before the spawn, and both first
\* writes after the spawn recorded
C3_Witness ==
    \E c \in ThreadIds(threads) :
        /\ spawn_info[c].parent # NoThread
        /\ spawn_info[c].cfirst # {}
        /\ spawn_info[c].pfirst # {}


\* a schedule() call is the only step that moves the ledger one position on
ScheduleStep == active # NoThread /\ path'.pos = path.pos + 1

\* one step of a permutation leaves every clock entry of every thread at
\* least as large as it was
C4_Monotone ==
    (alive' /\ id' = id) =>
        \A t \in ThreadIds(threads) :
            /\ t \in ThreadIds(threads')
            /\ VVLe(threads[t].causality, threads'[t].causality)
            /\ VVLe(threads[t].dpor_vv, threads'[t].dpor_vv)

\* C4: within one permutation no entry of any thread's causality clock or
\* DPOR clock ever decreases, whatever new_thread() and schedule() calls
\* are made.
C4_ClocksMonotone == [][C4_Monotone]_vars

\* C4 witness: a thread whose DPOR clock has grown both by a join (an entry
\* of another thread) and by its own increments, after a spawn
C4_Witness ==
    \E t \in ThreadIds(threads) : \E u \in ThreadIds(threads) \ {t} :
        /\ threads[t].dpor_vv[u] > 0
        /\ threads[t].dpor_vv[t] > 0
        /\ threads[t].causality[t] > 0

\* the identities issued so far, in the order of issue
C5_IssuedIncreasing ==
    \A i \in 1..Len(issued) : \A j \in 1..Len(issued) :
        i < j => issued[i] < issued[j]

C5_Replaced ==
    id' # id => /\ id' > id
                /\ id' \notin Range(issued)
                /\ id' \in Range(issued')

\* C5: the identities issued so far are strictly increasing in the order of
\* issue (so none repeats), and whenever step() replaces an execution the new
\* identity is a larger one that had not been issued before.
C5_IdentitiesIncrease == []C5_IssuedIncreasing /\ [][C5_Replaced]_vars

\* C5 witness: step() has reported exhaustion (drawing an identity on the
\* way) while other executions drew identities from the same counter
C5_Witness ==
    /\ ~alive
    /\ Len(issued) = Len(explored) + 1 + MaxElsewhere
    /\ id > 1

\* one round: the yielded threads are passed over and runnable afterwards
C6_Round ==
    (ScheduleStep /\ active' # NoThread) =>
        \A t \in ThreadIds(threads) :
            is_yield(threads[t]) => t # active' /\ is_runnable(threads'[t])

C6_Count ==
    \A t \in ThreadIds(threads) :
        skipped[t] + (IF is_yield(threads[t]) THEN 1 ELSE 0) = threads[t].yield_count

C7_Preempted ==
    (ScheduleStep /\ threads[active].critical /\ is_runnable(threads[active]))
        => active' = active

\* C7 (as stated): a schedule() call made while the active thread's critical
\* flag is set does not preempt it: the active thread after the call is the
\* thread that was active before it.
C7_CriticalNotPreempted == [][C7_Preempted]_vars

\* a step() call is the only step that files a finished run
StepCall == Len(explored') = Len(explored) + 1

C8_Frame ==
    StepCall =>
        /\ alive' <=> \E k \in 1..Len(path.branches) : HasPending(path.branches[k])
        /\ alive' =>
            /\ max_threads' = max_threads
            /\ max_history' = max_history
            /\ log' = log
            /\ path'.pos = 0
            /\ Len(path'.branches) <= Len(path.branches)
            /\ \A k \in 1..Len(path'.branches) :
                  path'.branches[k].seed = path.branches[k].seed
            /\ id' # id /\ id' \notin Range(issued)
            /\ \A o \in Objects : objects'[o] = {}
            /\ raw_allocations' = {}
            /\ threads' = <<ThreadNew(max_threads)>>
            /\ active' = 1

\* C8: step() reports the end exactly when no branch of the ledger has a
\* pending thread left; otherwise the execution it returns keeps the limits
\* and the log setting, carries the ledger forward (rewound, a prefix of the
\* decisions kept), has an identity not issued before, an empty object
\* store, an empty allocation table, and a thread set of one fresh thread.
C8_StepFrame == [][C8_Frame]_vars

\* C8 witness: an execution returned by step(), with logging on, taken from
\* a ledger that keeps decisions of the finished run
C8_Witness ==
    /\ alive /\ Len(explored) >= 1 /\ trace = <<>>
    /\ log
    /\ id > 0
    /\ path.pos = 0 /\ path.branches # <<>>
    /\ threads = SetNew(max_threads)
    /\ raw_allocations = {}

\* one call: the value returned against the change of the active thread
C10_Return ==
    (ScheduleStep /\ ret' # "panic") => (ret' = "true" <=> active' # active)

\* C10: a schedule() call that does not abort returns true exactly when the
\* thread active after it (none, when all have terminated) differs from the
\* thread active before it, and false when the same thread is selected again.
C10_ReturnsSwitched == [][C10_Return]_vars

\* C10 witness: schedule() has returned true after taking the processor from
\* a thread that is still runnable, parked in its own schedule() call
C10_Witness ==
    /\ ret = "true" /\ active # NoThread
    /\ \E t \in ThreadIds(threads) \ {active} :
          is_runnable(threads[t]) /\ pc[t].at = "parked"

\* thread t has a pending operation and a last dependent access to its
\* object, taken at branch position k, that does not happen-before t's
\* DPOR clock: some entry of the access's clock exceeds t's entry
C11_Race(k, t) ==
    /\ threads[t].operation # NoOp
    /\ \E a \in objects[threads[t].operation] :
          /\ a.path_id = k
          /\ \E i \in DOMAIN a.version : a.version[i] > threads[t].dpor_vv[i]

\* one call, read off the ledger: at every branch already decided, a thread
\* passed over there becomes pending exactly when an obligation at that
\* position names it (or names a thread that was disabled there), and no
\* other class changes
C11_Ledger ==
    ScheduleStep =>
        \A k \in 1..Len(path.branches) :
            \A j \in 1..Len(path.branches[k].threads) :
                LET before == path.branches[k].threads[j]
                    after == path'.branches[k].threads[j]
                    named == \E t \in 1..Len(path.branches[k].threads) :
                                /\ t \in ThreadIds(threads)
                                /\ C11_Race(k - 1, t)
                                /\ \/ t = j
                                   \/ path.branches[k].threads[t] = "Disabled"
                IN /\ before = "Skip" => (after = "Pending" <=> named)
                   /\ before # "Skip" => after = before
                   /\ after \in {before, "Pending"}

\* C11: in each schedule() call, for every thread with a pending recorded
\* operation and every last dependent access to that operation's object, a
\* backtrack obligation naming the thread is registered with the branch
\* ledger at the access's branch position if and only if the access does not
\* happen-before the thread's DPOR clock; nothing is registered for a thread
\* without a pending operation.
C11_BacktrackIffRace == [][C11_Ledger]_vars

\* C11 witness: a thread passed over at a branch has been made pending there
\* by a race with the access taken at that branch
C11_Witness ==
    \E k \in 1..Len(path.branches) :
        \E j \in 1..Len(path.branches[k].threads) :
            /\ path.branches[k].threads[j] = "Pending"
            /\ path.branches[k].seed[j] = "Skip"
            /\ j \in ThreadIds(threads)
            /\ threads[j].operation # NoOp

\* the classification the schedule() call of this step handed to the ledger
SeedHanded == path'.branches[path.pos + 1].seed

\* the threads that are Runnable when schedule() is called
RunnableIds == {i \in ThreadIds(threads) : is_runnable(threads[i])}

\* one call: the candidate is the thread classified Active
C12_Initial ==
    ScheduleStep =>
        LET cand == FirstWith(SeedHanded, "Active")
        IN /\ is_runnable(threads[active]) => cand = active
           /\ (~is_runnable(threads[active]) /\ RunnableIds # {}) =>
                 /\ cand \in RunnableIds
                 /\ \A j \in RunnableIds :
                       \/ threads[cand].yield_count < threads[j].yield_count
                       \/ /\ threads[cand].yield_count = threads[j].yield_count
                          /\ cand <= j
           /\ cand = NoThread <=> RunnableIds = {}

\* C12: the initial candidate of schedule() is the active thread whenever it
\* is Runnable, whatever the yield counts; otherwise the Runnable thread with
\* the smallest yield count, the lowest identifier winning a tie; and there
\* is no candidate exactly when no thread is Runnable.
C12_InitialCandidate == [][C12_Initial]_vars

\* C12 witness: the active thread had yielded and the candidate was the third
\* thread, which had yielded less often than the runnable first thread
C12_Witness ==
    /\ Len(threads) = 3 /\ active = 3 /\ ret = "true" /\ path.pos >= 1
    /\ path.branches[path.pos].seed = <<"Skip", "Yield", "Active">>
    /\ threads[1].yield_count > threads[3].yield_count

\* one call: the classification handed to the ledger, thread by thread
C13_Classes ==
    ScheduleStep =>
        /\ DOMAIN SeedHanded = ThreadIds(threads)
        /\ \A i \in ThreadIds(threads) :
              /\ SeedHanded[i] \in {"Active", "Yield", "Disabled", "Skip"}
              /\ SeedHanded[i] = "Active" => is_runnable(threads[i])
              /\ SeedHanded[i] = "Yield" <=> is_yield(threads[i])
              /\ SeedHanded[i] = "Disabled" <=>
                    threads[i].state \in {"Blocked", "Terminated"}
              /\ SeedHanded[i] = "Skip" <=>
                    (is_runnable(threads[i]) /\ i # FirstWith(SeedHanded, "Active"))
        /\ Cardinality({i \in ThreadIds(threads) : SeedHanded[i] = "Active"}) <= 1
        /\ RunnableIds # {} => FirstWith(SeedHanded, "Active") # NoThread

\* C13: the classification schedule() hands to the branch ledger gives every
\* thread exactly one class: Active if it is the chosen candidate, otherwise
\* Yield if its state is Yield, otherwise Disabled if it is blocked or
\* terminated, otherwise Skip; at most one thread is Active, and that thread
\* is Runnable.
C13_Classification == [][C13_Classes]_vars

\* C13 witness: one schedule() call classified a yielded, a blocked and the
\* chosen thread, and another passed a runnable thread over
C13_Witness ==
    /\ \E k \in 1..Len(path.branches) :
          {"Active", "Yield", "Disabled"} \subseteq Range(path.branches[k].seed)
    /\ \E k \in 1..Len(path.branches) :
          {"Active", "Skip"} \subseteq Range(path.branches[k].seed)

\* the largest number of a non-empty finite set
MaxOf(S) == CHOOSE x \in S : \A y \in S : y <= x

\* entry i of the entrywise maximum of clock vv and the clocks of accesses
MaxEntry(vv, accesses, i) == MaxOf({vv[i]} \cup {a.version[i] : a \in accesses})

\* one call that selects a thread
C14_Update ==
    (ScheduleStep /\ active' # NoThread) =>
        LET next == active'
            operation == threads[next].operation
            old == threads[next].dpor_vv
            new == threads'[next].dpor_vv
        IN IF operation # NoOp
           THEN /\ \A i \in DOMAIN old :
                      new[i] = MaxEntry(old, objects[operation], i)
                                  + (IF i = next THEN 1 ELSE 0)
                /\ objects'[operation] = {[path_id |-> path.pos, version |-> new]}
                /\ \A o \in Objects \ {operation} : objects'[o] = objects[o]
           ELSE new = old /\ objects' = objects

\* C14: when schedule() selects a thread with a pending recorded operation,
\* the thread's DPOR clock afterwards is the entrywise maximum of its previous
\* DPOR clock and the clocks of all last dependent accesses for the
\* operation, with its own entry then incremented by one; the access recorded
\* for the operation carries this clock and the ledger position read before
\* the branch was taken.  A selected thread without a pending operation keeps
\* its DPOR clock and records nothing.
C14_CausalUpdate == [][C14_Update]_vars

\* C14 witness: an access recorded after the first branch by a thread whose
\* clock absorbed an entry of the other thread from the previous access
C14_Witness ==
    \E o \in Objects : \E a \in objects[o] :
        /\ a.path_id >= 1
        /\ active # NoThread
        /\ threads[active].operation = o
        /\ threads[active].dpor_vv = a.version
        /\ a.version[active] = 1
        /\ \E u \in ThreadIds(threads) \ {active} :
              a.version[u] >= 1 /\ spawn_info[active].cclock[u] = 0

\* one call that selects a thread: the threads that were in Yield
C15_Wake ==
    (ScheduleStep /\ active' # NoThread) =>
        \A t \in ThreadIds(threads) :
            is_yield(threads[t]) =>
                IF t # active' THEN is_runnable(threads'[t])
                ELSE is_yield(threads'[t])

\* step 6 for every thread the ledger could select: the ledger as modelled
\* here never selects a yielded thread, so that half is read off step 6
\* itself, applied to the thread set of every reachable state
C15_Selected ==
    \A next \in ThreadIds(threads) :
        \A t \in ThreadIds(threads) :
            is_yield(threads[t]) =>
                IF t # next THEN is_runnable(WakeYielded(threads, next)[t])
                ELSE is_yield(WakeYielded(threads, next)[t])

\* C15: after a schedule() call that selects a thread, every thread that was
\* in state Yield other than the selected thread is Runnable, and a selected
\* thread that was in state Yield is still in state Yield.
C15_WakeOthers == [][C15_Wake]_vars /\ []C15_Selected

\* C15 witness: of three threads one was woken by a schedule() call after
\* its yield, and the active thread has yielded and not yet been passed over
C15_Witness ==
    /\ Len(threads) = 3
    /\ active # NoThread /\ is_yield(threads[active])
    /\ \E t \in ThreadIds(threads) \ {active} :
          /\ threads[t].yield_count >= 1
          /\ skipped[t] = threads[t].yield_count
          /\ is_runnable(threads[t])

\* a new_thread() call is the only step that adds a thread to the set
SpawnStep == Len(threads') = Len(threads) + 1

\* one call, with P the active thread and C the thread added: the clocks
\* entry by entry.  The entries bumped are those of the causality clocks;
\* C's DPOR clock is the join and nothing more.
C16_Clocks ==
    SpawnStep =>
        LET P == active
            C == Len(threads')
        IN /\ \A i \in DOMAIN threads[P].causality :
                 /\ threads'[C].causality[i] =
                       MaxOf({0, threads[P].causality[i]}) + (IF i = C THEN 1 ELSE 0)
                 /\ threads'[C].dpor_vv[i] = MaxOf({0, threads[P].dpor_vv[i]})
                 /\ threads'[P].causality[i] =
                       threads[P].causality[i] + (IF i = P THEN 1 ELSE 0)
           /\ active' = P

\* C16: after new_thread() with active parent P returning child C, C's
\* causality clock and C's DPOR clock are each the entrywise maximum of C's
\* initial (empty) clock and P's corresponding clock at spawn time; after
\* that join C's own entry and P's own entry, each in its own causality
\* clock, are incremented by exactly one; the active thread is still P.
C16_SpawnClocks == [][C16_Clocks]_vars

\* C16 witness: a child spawned by a parent that had recorded an access, so
\* that the DPOR clock it inherited is not empty
C16_Witness ==
    \E c \in ThreadIds(threads) :
        /\ spawn_info[c].parent # NoThread
        /\ spawn_info[c].cclock[spawn_info[c].parent] >= 1
        /\ threads[c].causality[c] = 1
        /\ threads[spawn_info[c].parent].causality[spawn_info[c].parent] = 1
        /\ threads[c].dpor_vv[c] = 0

\* a set_critical() or unset_critical() call is the only step that changes a
\* critical flag
CriticalStep ==
    /\ Len(threads') = Len(threads)
    /\ \E t \in ThreadIds(threads) : threads'[t].critical # threads[t].critical

\* one call of new_thread(), schedule(), set_critical() or unset_critical():
\* the state of every thread of the set
C17_States ==
    (ScheduleStep \/ SpawnStep \/ CriticalStep) =>
        \A t \in ThreadIds(threads) :
            /\ is_terminated(threads[t]) => is_terminated(threads'[t])
            /\ threads[t].state = "Blocked" => threads'[t].state = "Blocked"
            /\ threads'[t].state # threads[t].state =>
                  /\ ScheduleStep
                  /\ is_yield(threads[t]) /\ is_runnable(threads'[t])
                  /\ t # active'

\* C17: new_thread(), schedule(), set_critical() and unset_critical() never
\* move a thread out of Terminated and never make a blocked thread Runnable:
\* the only state change schedule() makes is Yield to Runnable for threads it
\* did not select, and every other thread keeps its state.
C17_StatesKept == [][C17_States]_vars

\* C17 witness: schedule() has woken a yielded thread while another thread
\* stayed blocked or terminated, and the main thread is in a critical section
C17_Witness ==
    /\ Len(threads) = 3 /\ active # NoThread /\ ret \in {"true", "false"}
    /\ path.pos >= 1 /\ Len(path.branches[path.pos].seed) = 3
    /\ threads[1].critical
    /\ \E t \in ThreadIds(threads) : threads[t].state \in {"Blocked", "Terminated"}
    /\ \E u \in ThreadIds(threads) \ {active} :
          /\ is_runnable(threads[u])
          /\ path.branches[path.pos].seed[u] = "Yield"

\* C18 (as stated): in every execution state, after new() and after any
\* number of successful step() calls, the thread set and the object store
\* are both tagged with the execution's current identity, so that nothing
\* issued under an earlier permutation's identity matches them.
C18_TaggedCurrent == alive => (threads_eid = id /\ objects_eid = id)

\* the thread that recorded access a: the one the ledger has as selected at
\* the branch position the access carries
Recorder(a) == FirstWith(path.branches[a.path_id + 1].threads, "Active")

\* every access in the store happens-before the DPOR clock of the thread
\* that recorded it
C19_Own ==
    \A o \in Objects : \A a \in objects[o] :
        /\ Recorder(a) \in ThreadIds(threads)
        /\ happens_before(a, threads[Recorder(a)].dpor_vv)

\* right after the causal update every access that was joined
\* happens-before the selected thread's DPOR clock
C19_Absorb ==
    (ScheduleStep /\ active' # NoThread /\ threads[active'].operation # NoOp) =>
        \A a \in objects[threads[active'].operation] :
            happens_before(a, threads'[active'].dpor_vv)

\* within a permutation an access that happens-before a thread's DPOR
\* clock still does so after any step
C19_Kept ==
    (alive' /\ id' = id) =>
        \A t \in ThreadIds(threads) : \A o \in Objects : \A a \in objects[o] :
            happens_before(a, threads[t].dpor_vv) =>
                happens_before(a, threads'[t].dpor_vv)

\* race detection has no obligation to register for a thread against an
\* access the thread recorded itself
C19_NoSelfRace ==
    \A t \in ThreadIds(threads) :
        threads[t].operation # NoOp =>
            \A a \in objects[threads[t].operation] :
                C11_Race(a.path_id, t) => Recorder(a) # t

\* C19: within one permutation every access a thread has recorded through
\* schedule() happens-before that thread's DPOR clock in every later state,
\* and right after the causal update every last dependent access that was
\* joined happens-before the selected thread's DPOR clock; so a later
\* schedule() round registers no backtrack for a thread against an access
\* the thread recorded itself or has absorbed.
C19_AbsorbedStaysBefore ==
    []C19_Own /\ [][C19_Absorb /\ C19_Kept]_vars /\ []C19_NoSelfRace

\* C19 witness: two threads wait on the same object, whose last access the
\* one recorded itself and the other absorbed at its spawn, with a later
\* schedule() round behind them
C19_Witness ==
    \E o \in Objects : \E a \in objects[o] :
        \E t \in ThreadIds(threads) : \E u \in ThreadIds(threads) \ {t} :
            /\ threads[t].operation = o /\ threads[u].operation = o
            /\ Recorder(a) = t
            /\ happens_before(a, threads[u].dpor_vv)
            /\ active = u
            /\ path.pos > a.path_id + 1

\* one schedule() call: what it leaves alone
C20_ScheduleFrame ==
    ScheduleStep =>
        /\ Len(threads') = Len(threads)
        /\ \A t \in ThreadIds(threads) :
              /\ threads'[t].causality = threads[t].causality
              /\ threads'[t].yield_count = threads[t].yield_count
              /\ threads'[t].operation = threads[t].operation
              /\ threads'[t].critical = threads[t].critical
              /\ threads'[t].dpor_vv # threads[t].dpor_vv => t = active'
        /\ Cardinality({o \in Objects : objects'[o] # objects[o]}) <= 1
        /\ \A o \in Objects :
              objects'[o] # objects[o] => Cardinality(objects'[o]) = 1

\* one new_thread() call: what it leaves alone
C20_SpawnFrame ==
    SpawnStep =>
        LET P == active
            C == Len(threads')
        IN /\ \A t \in ThreadIds(threads) \ {P} : threads'[t] = threads[t]
           /\ threads'[P] = [threads[P] EXCEPT !.causality = threads'[P].causality]
           /\ threads'[C] = [ThreadNew(max_threads) EXCEPT
                                !.causality = threads'[C].causality,
                                !.dpor_vv = threads'[C].dpor_vv]
           /\ objects' = objects /\ path' = path /\ active' = active

\* C20: a schedule() call changes the DPOR clock of at most one thread, the
\* selected one, changes no thread's causality clock, yield count, pending
\* operation or critical flag, and records at most one access in the object
\* store; new_thread() changes only the clocks of the new thread and the
\* causality clock of the parent, and leaves the parent's DPOR clock and
\* every other thread as they were.
C20_Frames == [][C20_ScheduleFrame /\ C20_SpawnFrame]_vars

\* C20 witness: schedule() has just recorded the access of the thread it
\* selected, while the other thread holds a pending operation, a yield
\* count and clocks of its own
C20_Witness ==
    /\ Len(threads) = 2 /\ active # NoThread /\ ret \in {"true", "false"}
    /\ threads[active].operation # NoOp
    /\ \E a \in objects[threads[active].operation] :
          a.version = threads[active].dpor_vv /\ a.path_id = path.pos - 1
    /\ \E u \in ThreadIds(threads) \ {active} :
          /\ threads[u].yield_count >= 1
          /\ threads[u].operation # NoOp
          /\ threads[u].causality # threads[u].dpor_vv

====
